---------------------------- MODULE Spec2Model ----------------------------
(***************************************************************************)
(* Model of src/app.py: the gazette price parser (extract_prices_regex),   *)
(* the classification normalisers (get_ore_type, get_grade_code,           *)
(* clean_currency) and the levy loop of process_data.                      *)
(*                                                                         *)
(* Text is modelled as TLA+ strings, character by character, with Python's *)
(* 0-based offsets and half-open slices.  Python floats are modelled as    *)
(* exact rationals <<numerator, denominator>> in lowest terms.             *)
(***************************************************************************)
EXTENDS Integers, Sequences, FiniteSets, TLC

VARIABLES pc, pages, full_text, prices, df, output_rows,
          qty, ore_code, grade_code

vars == <<pc, pages, full_text, prices, df, output_rows,
          qty, ore_code, grade_code>>

(***************************************************************************)
(* Python str primitives                                                   *)
(***************************************************************************)
Min(S) == CHOOSE x \in S : \A y \in S : x <= y

UpperAlphabet == "ABCDEFGHIJKLMNOPQRSTUVWXYZ"

LowerAlphabet == "abcdefghijklmnopqrstuvwxyz"

Digits == "0123456789"

Whitespace == {" ", "\t", "\n", "\r", "\f"}

\* s[i], 0-based
CharAt(s, i) == SubSeq(s, i + 1, i + 1)

\* s[a:b] with Python's clamping of the bounds (a, b >= 0)
Slice(s, a, b) == SubSeq(s, a + 1, IF b < Len(s) THEN b ELSE Len(s))

\* 0-based offset of c in the one-character-per-entry string alphabet, or -1
IndexIn(alphabet, c) ==
    LET hits == {i \in 0..(Len(alphabet) - 1) : CharAt(alphabet, i) = c}
    IN  IF hits = {} THEN -1 ELSE Min(hits)

IsDigit(c) == IndexIn(Digits, c) # -1

\* \w of the re module, on ASCII text
IsWordChar(c) ==
    \/ IsDigit(c)
    \/ IndexIn(UpperAlphabet, c) # -1
    \/ IndexIn(LowerAlphabet, c) # -1
    \/ c = "_"

LowerChar(c) ==
    LET i == IndexIn(UpperAlphabet, c)
    IN  IF i = -1 THEN c ELSE CharAt(LowerAlphabet, i)

UpperChar(c) ==
    LET i == IndexIn(LowerAlphabet, c)
    IN  IF i = -1 THEN c ELSE CharAt(UpperAlphabet, i)

\* s.lower(), halving the text so that the recursion stays shallow
RECURSIVE Lower(_)
Lower(s) ==
    IF Len(s) <= 1 THEN LowerChar(s)
    ELSE Lower(Slice(s, 0, Len(s) \div 2))
             \o Lower(Slice(s, Len(s) \div 2, Len(s)))

\* s.upper()
RECURSIVE Upper(_)
Upper(s) ==
    IF Len(s) <= 1 THEN UpperChar(s)
    ELSE Upper(Slice(s, 0, Len(s) \div 2))
             \o Upper(Slice(s, Len(s) \div 2, Len(s)))

\* s.strip()
Strip(s) ==
    LET keep == {i \in 0..(Len(s) - 1) : CharAt(s, i) \notin Whitespace}
    IN  IF keep = {} THEN ""
        ELSE Slice(s, Min(keep), (CHOOSE x \in keep : \A y \in keep : y <= x) + 1)

\* s.replace(old, new) for a one-character old
RECURSIVE Replace(_, _, _)
Replace(s, old, new) ==
    IF Len(s) <= 1 THEN (IF s = old THEN new ELSE s)
    ELSE Replace(Slice(s, 0, Len(s) \div 2), old, new)
             \o Replace(Slice(s, Len(s) \div 2, Len(s)), old, new)

\* s.find(sub, start): 0-based offset of the first occurrence at or after
\* start, or -1
FindFrom(s, sub, start) ==
    LET hits == {i \in start..(Len(s) - Len(sub)) :
                     SubSeq(s, i + 1, i + Len(sub)) = sub}
    IN  IF hits = {} THEN -1 ELSE Min(hits)

Find(s, sub) == FindFrom(s, sub, 0)

\* sub in s
Contains(s, sub) == Find(s, sub) # -1

\* int(text) for a run of decimal digits
RECURSIVE DigitsValue(_)
DigitsValue(s) ==
    IF s = "" THEN 0
    ELSE 10 * DigitsValue(Slice(s, 0, Len(s) - 1))
             + IndexIn(Digits, CharAt(s, Len(s) - 1))

\* the end (exclusive) of the run of digits that starts at offset i
DigitRunEnd(s, i) ==
    LET stops == {j \in i..Len(s) : j = Len(s) \/ ~IsDigit(CharAt(s, j))}
    IN  Min(stops)

\* str(n) for an integer n
RECURSIVE NatText(_)
NatText(n) ==
    IF n < 10 THEN CharAt(Digits, n)
    ELSE NatText(n \div 10) \o CharAt(Digits, n % 10)

IntText(n) == IF n < 0 THEN "-" \o NatText(-n) ELSE NatText(n)

(***************************************************************************)
(* Python floats as exact rationals <<n, d>>, d > 0, in lowest terms       *)
(***************************************************************************)
RECURSIVE Gcd(_, _)
Gcd(a, b) == IF b = 0 THEN a ELSE Gcd(b, a % b)

Abs(n) == IF n < 0 THEN -n ELSE n

Rat(n, d) ==
    LET g == Gcd(Abs(n), d)
    IN  IF n = 0 THEN <<0, 1>> ELSE <<n \div g, d \div g>>

RatMul(a, b) == Rat(a[1] * b[1], a[2] * b[2])

RECURSIVE Pow10(_)
Pow10(k) == IF k = 0 THEN 1 ELSE 10 * Pow10(k - 1)


(***************************************************************************)
(* Values held by spreadsheet cells and output fields: a str, a float, a   *)
(* missing cell (NaN, for which pd.isna is true) or None.                  *)
(***************************************************************************)
StrVal(t) == [kind |-> "str", text |-> t, num |-> <<0, 1>>]

FloatVal(r) == [kind |-> "float", text |-> "", num |-> r]

NaNVal == [kind |-> "nan", text |-> "nan", num |-> <<0, 1>>]

NoneVal == [kind |-> "None", text |-> "None", num |-> <<0, 1>>]

\* pd.isna(value)
isna(value) == value.kind = "nan"

\* str(value), for the cells of the model (str and NaN cells)
str(value) == value.text

\* the value of ore_code / ore_desc when no rule matches
None == "None"

(***************************************************************************)
(* 1. Full-form mappings                                                   *)
(***************************************************************************)
ORE_FULL_FORMS ==
    [c \in {"L", "F", "C", "M", "B"} |->
        CASE c = "L" -> "Iron Ore (Lumps)"
          [] c = "F" -> "Iron Ore (Fines)"
          [] c = "C" -> "Concentrates"
          [] c = "M" -> "Manganese"
          [] c = "B" -> "Bauxite"]

GRADE_FULL_FORMS ==
    [c \in {"A", "B", "C", "D", "E", "F"} |->
        CASE c = "A" -> "Below 55% Fe"
          [] c = "B" -> "55% to below 58% Fe"
          [] c = "C" -> "58% to below 60% Fe"
          [] c = "D" -> "60% to below 62% Fe"
          [] c = "E" -> "62% to below 65% Fe"
          [] c = "F" -> "65% Fe and above"]

\* d.get(key, default)
DictGet(d, key, default) == IF key \in DOMAIN d THEN d[key] ELSE default

(***************************************************************************)
(* 2. Data cleaning and matching                                           *)
(***************************************************************************)
\* float(text): optional sign, digits with an optional decimal point.  The
\* quantity texts of the model use no exponent, underscore, "inf" or
\* "infinity", the other forms float() accepts.
FloatBody(t) ==
    LET u == Strip(t)
    IN  IF u # "" /\ CharAt(u, 0) \in {"+", "-"} THEN Slice(u, 1, Len(u)) ELSE u

FloatParses(t) ==
    LET body == FloatBody(t)
        dot  == Find(body, ".")
        ip   == IF dot = -1 THEN body ELSE Slice(body, 0, dot)
        fp   == IF dot = -1 THEN "" ELSE Slice(body, dot + 1, Len(body))
    IN  /\ Len(ip) + Len(fp) >= 1
        /\ \A i \in 0..(Len(ip) - 1) : IsDigit(CharAt(ip, i))
        /\ \A i \in 0..(Len(fp) - 1) : IsDigit(CharAt(fp, i))

FloatOf(t) ==
    LET u    == Strip(t)
        body == FloatBody(t)
        dot  == Find(body, ".")
        ip   == IF dot = -1 THEN body ELSE Slice(body, 0, dot)
        fp   == IF dot = -1 THEN "" ELSE Slice(body, dot + 1, Len(body))
        sign == IF CharAt(u, 0) = "-" THEN -1 ELSE 1
    IN  Rat(sign * (DigitsValue(ip) * Pow10(Len(fp)) + DigitsValue(fp)),
            Pow10(Len(fp)))

clean_currency(value) ==
    IF isna(value) \/ Lower(Strip(str(value))) \in {"na", "nil", "", "nan"}
    THEN <<0, 1>>
    ELSE LET t == Replace(Replace(str(value), ",", ""), " ", "")
         IN  IF FloatParses(t) THEN FloatOf(t) ELSE <<0, 1>>

\* int(re.findall(r'\d+', s)[0]); -1 stands for "nums is empty"
FirstInt(s) ==
    LET starts == {i \in 0..(Len(s) - 1) : IsDigit(CharAt(s, i))}
    IN  IF starts = {} THEN -1
        ELSE DigitsValue(Slice(s, Min(starts), DigitRunEnd(s, Min(starts))))

\* get_grade_code with the first boundary slipped to "val <= 55"
get_grade_code_Boundary(grade_str) ==
    IF isna(grade_str) THEN "Unknown"
    ELSE LET s       == Upper(Strip(str(grade_str)))
             s_lower == Lower(s)
             val     == FirstInt(s)
         IN  IF s \in DOMAIN GRADE_FULL_FORMS THEN s
             ELSE IF Contains(s_lower, "below") /\ Contains(s_lower, "55") THEN "A"
             ELSE IF Contains(s_lower, "65") /\ Contains(s_lower, "above") THEN "F"
             ELSE IF val = -1 THEN "Unknown"
             ELSE IF val <= 55 THEN "A"
             ELSE IF 55 < val /\ val < 58 THEN "B"
             ELSE IF 58 <= val /\ val < 60 THEN "C"
             ELSE IF 60 <= val /\ val < 62 THEN "D"
             ELSE IF 62 <= val /\ val < 65 THEN "E"
             ELSE "F"

get_grade_code(grade_str) ==
    IF isna(grade_str) THEN "Unknown"
    ELSE LET s       == Upper(Strip(str(grade_str)))
             s_lower == Lower(s)
             val     == FirstInt(s)
         IN  IF s \in DOMAIN GRADE_FULL_FORMS THEN s
             ELSE IF Contains(s_lower, "below") /\ Contains(s_lower, "55") THEN "A"
             ELSE IF Contains(s_lower, "65") /\ Contains(s_lower, "above") THEN "F"
             ELSE IF val = -1 THEN "Unknown"
             ELSE IF val < 55 THEN "A"
             ELSE IF 55 <= val /\ val < 58 THEN "B"
             ELSE IF 58 <= val /\ val < 60 THEN "C"
             ELSE IF 60 <= val /\ val < 62 THEN "D"
             ELSE IF 62 <= val /\ val < 65 THEN "E"
             ELSE IF val >= 65 THEN "F"
             ELSE "Unknown"

get_ore_type(ore_str) ==
    IF isna(ore_str) THEN None
    ELSE LET s == Lower(Strip(str(ore_str)))
         IN  IF Contains(s, "bauxite") THEN "B"
             ELSE IF Contains(s, "manganese") THEN "M"
             ELSE IF s \in {"l", "f", "c"} THEN Upper(s)
             ELSE IF Contains(s, "lump") THEN "L"
             ELSE IF Contains(s, "fine") THEN "F"
             ELSE IF Contains(s, "conc") THEN "C"
             ELSE None

(***************************************************************************)
(* 3. The PDF price parser                                                 *)
(***************************************************************************)
\* fallback length of the Goa section when "Gujarat" is missing
GoaCutoff == 1500

\* characters inspected after a grade phrase
SnippetLen == 40

\* \d{2,5}
MinPriceDigits == 2

MaxPriceDigits == 5

\* re.search(r'\bword\b', text, re.IGNORECASE).start(), or -1 when there is
\* no match; word is given in lower case
SearchWord(text, word) ==
    LET low  == Lower(text)
        n    == Len(word)
        hits == {i \in 0..(Len(text) - n) :
                    /\ Slice(low, i, i + n) = word
                    /\ i = 0 \/ ~IsWordChar(CharAt(text, i - 1))
                    /\ i + n = Len(text) \/ ~IsWordChar(CharAt(text, i + n))}
    IN  IF hits = {} THEN -1 ELSE Min(hits)

\* the grade patterns, in dict order.  gap "ws" is \s* and gap "any" is .*?
\* between the two literals.
grade_patterns ==
    << [code |-> "A", first |-> "below", gap |-> "ws",  last |-> "55"],
       [code |-> "B", first |-> "55",    gap |-> "any", last |-> "58"],
       [code |-> "C", first |-> "58",    gap |-> "any", last |-> "60"],
       [code |-> "D", first |-> "60",    gap |-> "any", last |-> "62"],
       [code |-> "E", first |-> "62",    gap |-> "any", last |-> "65"],
       [code |-> "F", first |-> "65",    gap |-> "any", last |-> "above"] >>

\* the end (exclusive) of the run of whitespace that starts at offset i
SpaceRunEnd(s, i) ==
    Min({j \in i..Len(s) : j = Len(s) \/ CharAt(s, j) \notin Whitespace})

\* re.search(pattern, block, re.IGNORECASE).end(), or -1 when there is no
\* match.  The match is the leftmost one; \s* is greedy and must be followed
\* by the last literal; .*? stops at the first occurrence of the last
\* literal (block holds no newline, so . matches every character of it).
PatternEnd(gp, block) ==
    LET low == Lower(block)
        n   == Len(gp.first)
        m   == Len(gp.last)
    IN  IF gp.gap = "ws"
        THEN LET hits == {i \in 0..(Len(low) - n) :
                            /\ Slice(low, i, i + n) = gp.first
                            /\ LET j == SpaceRunEnd(low, i + n)
                               IN  /\ j + m <= Len(low)
                                   /\ Slice(low, j, j + m) = gp.last}
             IN  IF hits = {} THEN -1
                 ELSE SpaceRunEnd(low, Min(hits) + n) + m
        ELSE LET i == Find(low, gp.first)
                 j == IF i = -1 THEN -1 ELSE FindFrom(low, gp.last, i + n)
             IN  IF j = -1 THEN -1 ELSE j + m

\* re.search(r'(\d{2,5})|NA', snippet, re.IGNORECASE): whether it matched,
\* and group(1) ("" stands for None, the group of a match of the NA branch)
ValMatch(snippet) ==
    LET low  == Lower(snippet)
        isNum(p) == \A k \in 0..(MinPriceDigits - 1) :
                        p + k < Len(snippet) /\ IsDigit(CharAt(snippet, p + k))
        hits == {p \in 0..(Len(snippet) - 1) :
                    isNum(p) \/ Slice(low, p, p + 2) = "na"}
        p0   == Min(hits)
        stop == DigitRunEnd(snippet, p0)
    IN  IF hits = {} THEN [matched |-> FALSE, group1 |-> ""]
        ELSE IF isNum(p0)
             THEN [matched |-> TRUE,
                   group1  |-> Slice(snippet, p0,
                                     IF stop < p0 + MaxPriceDigits
                                     THEN stop ELSE p0 + MaxPriceDigits)]
             ELSE [matched |-> TRUE, group1 |-> ""]

\* tbl[ore_type][code] = value
SetPrice(tbl, ore_type, code, value) ==
    [tbl EXCEPT ![ore_type] =
        [c \in DOMAIN tbl[ore_type] \union {code} |->
            IF c = code THEN value ELSE tbl[ore_type][c]]]

\* indices.sort(key=lambda x: x[1]), a stable sort
RECURSIVE SortByOffset(_)
SortByOffset(indices) ==
    IF Len(indices) <= 1 THEN indices
    ELSE LET x    == Head(indices)
             rest == SortByOffset(Tail(indices))
             at   == Min({j \in 1..(Len(rest) + 1) :
                            j = Len(rest) + 1 \/ rest[j][2] >= x[2]})
         IN  SubSeq(rest, 1, at - 1) \o <<x>> \o SubSeq(rest, at, Len(rest))

\* GradeLoop recording a price of zero when the NA branch matched
RECURSIVE GradeLoop_NAAsZero(_, _, _, _)
GradeLoop_NAAsZero(tbl, ore_type, block, k) ==
    IF k > Len(grade_patterns) THEN tbl
    ELSE LET gp        == grade_patterns[k]
             m_end     == PatternEnd(gp, block)
             snippet   == Slice(block, m_end, m_end + SnippetLen)
             val_match == ValMatch(snippet)
             found     == m_end # -1 /\ val_match.matched
         IN  GradeLoop_NAAsZero(IF found
                                THEN SetPrice(tbl, ore_type, gp.code,
                                              <<DigitsValue(val_match.group1), 1>>)
                                ELSE tbl,
                                ore_type, block, k + 1)

\* for code, pattern in grade_patterns.items(): ...   (from the k-th pattern)
RECURSIVE GradeLoop(_, _, _, _)
GradeLoop(tbl, ore_type, block, k) ==
    IF k > Len(grade_patterns) THEN tbl
    ELSE LET gp        == grade_patterns[k]
             m_end     == PatternEnd(gp, block)
             snippet   == Slice(block, m_end, m_end + SnippetLen)
             val_match == ValMatch(snippet)
             found     == m_end # -1 /\ val_match.matched
                              /\ val_match.group1 # ""
         IN  GradeLoop(IF found
                       THEN SetPrice(tbl, ore_type, gp.code,
                                     <<DigitsValue(val_match.group1), 1>>)
                       ELSE tbl,
                       ore_type, block, k + 1)

\* Step 1: text[start_idx:end_idx], for a text in which Goa is found
GoaText(text) ==
    LET start_idx == SearchWord(text, "goa")
        end_match == SearchWord(Slice(text, start_idx, Len(text)), "gujarat")
        end_idx   == IF end_match # -1 THEN start_idx + end_match
                     ELSE start_idx + GoaCutoff
    IN  Slice(text, start_idx, end_idx)

\* Step 2: goa_text.replace('\n', ' ').replace('"', '').replace(',', '')
FlatText(goa_text) ==
    Replace(Replace(Replace(goa_text, "\n", " "), "\"", ""), ",", "")

\* Step 3: the first offsets of lump / fine / conc, sorted by offset
OreIndices(flat_text) ==
    LET l_idx == Find(Lower(flat_text), "lump")
        f_idx == Find(Lower(flat_text), "fine")
        c_idx == Find(Lower(flat_text), "conc")
    IN  SortByOffset((IF l_idx # -1 THEN << <<"L", l_idx>> >> ELSE <<>>)
                     \o (IF f_idx # -1 THEN << <<"F", f_idx>> >> ELSE <<>>)
                     \o (IF c_idx # -1 THEN << <<"C", c_idx>> >> ELSE <<>>))

\* block = flat_text[start:end] of the i-th entry of indices (i 1-based)
Block(flat_text, indices, i) ==
    LET start == indices[i][2]
        end   == IF i + 1 <= Len(indices) THEN indices[i + 1][2]
                 ELSE Len(flat_text)
    IN  Slice(flat_text, start, end)

\* Step 4: for i in range(len(indices)): ...   (from the i-th block)
RECURSIVE BlockLoop(_, _, _, _)
BlockLoop(tbl, flat_text, indices, i) ==
    IF i > Len(indices) THEN tbl
    ELSE BlockLoop(GradeLoop(tbl, indices[i][1],
                             Block(flat_text, indices, i), 1),
                   flat_text, indices, i + 1)

\* prices = {"L": {}, "F": {}, "C": {}}
EmptyPrices == [o \in {"L", "F", "C"} |-> <<>>]

\* extract_prices_regex without the early return: the whole text is parsed
\* when Goa is not found
extract_prices_regex_NoReturn(text) ==
    LET flat_text == FlatText(IF SearchWord(text, "goa") = -1 THEN text
                              ELSE GoaText(text))
    IN  BlockLoop(EmptyPrices, flat_text, OreIndices(flat_text), 1)

extract_prices_regex(text) ==
    IF SearchWord(text, "goa") = -1 THEN EmptyPrices
    ELSE LET flat_text == FlatText(GoaText(text))
         IN  BlockLoop(EmptyPrices, flat_text, OreIndices(flat_text), 1)

(***************************************************************************)
(* 4. Excel processing: process_data                                       *)
(***************************************************************************)
GEMINI_API_KEY == "YOUR_GEMINI_API_KEY"

\* the keys of data.update({...})
ComputedFields ==
    {"Standardized Ore", "Standardized Grade", "IBM Rate (₹)",
     "Base Value (₹)", "Royalty Payable (15%)", "DMF Payable (30%)",
     "Calculation Status"}

RoyaltyRate == <<15, 100>>

DmfRate == <<30, 100>>

\* row.to_dict()
RowDict(columns, row) ==
    [c \in {columns[k] : k \in DOMAIN columns} |->
        row[Min({k \in DOMAIN columns : columns[k] = c})]]

\* next((col for col in df.columns if 'quantity' in col.lower()), 'Quantity')
QtyCol(columns) ==
    LET hits == {k \in DOMAIN columns : Contains(Lower(columns[k]), "quantity")}
    IN  IF hits = {} THEN "Quantity" ELSE columns[Min(hits)]

\* rate after the if / elif chain (rate = 0.0 unless the table has the cell)
Rate(ore_code_, grade_code_, tbl) ==
    IF ore_code_ = None THEN <<0, 1>>
    ELSE IF grade_code_ = "Unknown" THEN <<0, 1>>
    ELSE IF ore_code_ \in DOMAIN tbl /\ grade_code_ \in DOMAIN tbl[ore_code_]
         THEN tbl[ore_code_][grade_code_]
    ELSE <<0, 1>>

\* the status chain without its last branch: Success whenever both codes
\* resolve
Status_NoRateCheck(ore_code_, grade_code_, tbl) ==
    IF ore_code_ = None THEN "Error: Invalid Ore Type"
    ELSE IF grade_code_ = "Unknown" THEN "Error: Invalid Grade"
    ELSE "Success"

\* status after the if / elif chain
Status(ore_code_, grade_code_, tbl) ==
    IF ore_code_ = None THEN "Error: Invalid Ore Type"
    ELSE IF grade_code_ = "Unknown" THEN "Error: Invalid Grade"
    ELSE IF ore_code_ \in DOMAIN tbl /\ grade_code_ \in DOMAIN tbl[ore_code_]
         THEN "Success"
    ELSE "Rate Not Found (NA in Gazette)"

\* ORE_FULL_FORMS.get(ore_code, ore_code)
OreDesc(ore_code_) ==
    IF ore_code_ \in DOMAIN ORE_FULL_FORMS
    THEN StrVal(ORE_FULL_FORMS[ore_code_]) ELSE NoneVal

\* GRADE_FULL_FORMS.get(grade_code, grade_code)
GradeDesc(grade_code_) ==
    StrVal(DictGet(GRADE_FULL_FORMS, grade_code_, grade_code_))

\* base_val = qty * rate; royalty = base_val * 0.15; dmf = royalty * 0.30
BaseVal(qty_, rate) == RatMul(qty_, rate)

\* the royalty taken at the development-fee rate
Royalty_WrongRate(base_val) == RatMul(base_val, DmfRate)

Royalty(base_val) == RatMul(base_val, RoyaltyRate)

Dmf(royalty) == RatMul(royalty, DmfRate)

\* the dict given to data.update
Update(ore_code_, grade_code_, qty_, rate, status) ==
    [f \in ComputedFields |->
        CASE f = "Standardized Ore"      -> OreDesc(ore_code_)
          [] f = "Standardized Grade"    -> GradeDesc(grade_code_)
          [] f = "IBM Rate (₹)"          -> FloatVal(rate)
          [] f = "Base Value (₹)"        -> FloatVal(BaseVal(qty_, rate))
          [] f = "Royalty Payable (15%)" -> FloatVal(Royalty(BaseVal(qty_, rate)))
          [] f = "DMF Payable (30%)"     ->
                 FloatVal(Dmf(Royalty(BaseVal(qty_, rate))))
          [] f = "Calculation Status"    -> StrVal(status)]

\* data = row.to_dict(); data.update(update)
DictUpdate(data, update) ==
    [c \in DOMAIN data \union DOMAIN update |->
        IF c \in DOMAIN update THEN update[c] ELSE data[c]]

\* qty = clean_currency(row.get(qty_col, 0))
RowQty(columns, rowd) ==
    clean_currency(DictGet(rowd, QtyCol(columns), StrVal("0")))

\* ore_code = get_ore_type(row.get('Type of Ore', ''))
RowOreCode(rowd) == get_ore_type(DictGet(rowd, "Type of Ore", StrVal("")))

\* grade_code = get_grade_code(row.get('Grade ( Fe%)', ''))
RowGradeCode(rowd) == get_grade_code(DictGet(rowd, "Grade ( Fe%)", StrVal("")))

\* the dict appended for a row, given the locals computed from it
RowData(rowd, qty_, ore_code_, grade_code_, tbl) ==
    DictUpdate(rowd,
               Update(ore_code_, grade_code_, qty_,
                      Rate(ore_code_, grade_code_, tbl),
                      Status(ore_code_, grade_code_, tbl)))

\* output_rows.insert(0, data)
AppendRow_Prepend(rows, data) == <<data>> \o rows

\* output_rows.append(data)
AppendRow(rows, data) == Append(rows, data)

\* full_text += page.extract_text() + "\n", over the pages from the k-th on
RECURSIVE JoinPages(_, _)
JoinPages(pp, k) ==
    IF k > Len(pp) THEN "" ELSE pp[k] \o "\n" \o JoinPages(pp, k + 1)

(***************************************************************************)
(* Inputs: gazettes (the text of each page) and spreadsheets               *)
(***************************************************************************)
\* most rows of a spreadsheet
MaxRows == 2

\* grade texts are the decimal texts of -GradeRange .. GradeRange
GradeRange == 70

\* n spaces
RECURSIVE Spaces(_)
Spaces(n) ==
    IF n = 0 THEN ""
    ELSE IF n % 2 = 1 THEN " " \o Spaces(n - 1)
    ELSE Spaces(n \div 2) \o Spaces(n \div 2)

Gazettes ==
    { <<"Goa\nLumps 60 to below 62 500\nFines 62 to below 65 650\nGujarat Lumps 55 to 58 999">>,
      <<"Goa Lumps 58 to below 60 NA 60 to below 62 500 Gujarat">>,
      <<"Goa Lumps 60 to below 62 500 Bauxite 55 to below 58 900 Gujarat">>,
      <<"Odisha Lumps 60 to below 62 700", "Gujarat Fines 62 to below 65 800">>,
      <<"Goan Lumps 60 to below 62 700">>,
      <<"GOA Lumps below 55 400", "Fines 65 and above 1,250 Conc. 62-65 \"3,200\" Gujarat">>,
      <<"Goa Lumps 60 to below 62 500" \o Spaces(GoaCutoff)
            \o "Fines 62 to below 65 650">>,
      <<>> }

Headers ==
    { <<"Type of Ore", "Grade ( Fe%)", "Quantity", "Lessee">>,
      <<"Type of Ore", "Grade ( Fe%)", "Dispatch QUANTITY (MT)", "Calculation Status">>,
      <<"Ore", "Grade ( Fe%)", "Qty", "Remarks">> }

\* rows: the cells under the four columns of a header
RowPool ==
    { <<StrVal("Lumps"), StrVal("D"), StrVal("1000"), StrVal("Lessee A")>>,
      <<StrVal("granite"), StrVal("70"), StrVal("100"), StrVal("Lessee B")>>,
      <<StrVal("Fines"), StrVal("62"), StrVal("100"), StrVal("Success")>>,
      <<StrVal("Lumps"), StrVal("Fe"), StrVal("50"), NaNVal>>,
      <<StrVal("lump ore"), StrVal("60.5"), StrVal("-5"), StrVal("Lessee C")>>,
      <<StrVal("Fine Ore"), StrVal("65% Fe and above"), StrVal(" NA "), StrVal("")>>,
      <<NaNVal, NaNVal, NaNVal, NaNVal>>,
      <<StrVal("Conc"), StrVal("55% to below 58% Fe"), StrVal("1,000.5"), StrVal("x")>> }

RECURSIVE SeqsUpTo(_, _)
SeqsUpTo(S, n) ==
    IF n = 0 THEN {<<>>}
    ELSE LET shorter == SeqsUpTo(S, n - 1)
         IN  shorter \union {Append(q, x) : q \in shorter, x \in S}

Sheets ==
    {[columns |-> h, rows |-> r] : h \in Headers, r \in SeqsUpTo(RowPool, MaxRows)}

(***************************************************************************)
(* process_data as a state machine                                         *)
(***************************************************************************)
InitWith(gazettes) ==
    /\ pc = "open"
    /\ pages \in gazettes
    /\ full_text = ""
    /\ prices = <<>>
    /\ df = [columns |-> <<>>, rows |-> <<>>]
    /\ output_rows = <<>>
    /\ qty = <<0, 1>>
    /\ ore_code = None
    /\ grade_code = "Unknown"

\* 1. Parse PDF: the text of the pages
ReadPDF ==
    /\ pc = "open"
    /\ full_text' = JoinPages(pages, 1)
    /\ pc' = "prices"
    /\ UNCHANGED <<pages, prices, df, output_rows, qty, ore_code, grade_code>>

\* prices = {}; the Gemini branch is skipped, the key being the placeholder;
\* "if not prices: prices = extract_prices_regex(full_text)"
ExtractPrices ==
    /\ pc = "prices"
    /\ ~(GEMINI_API_KEY # "" /\ GEMINI_API_KEY # "YOUR_GEMINI_API_KEY")
    /\ prices' = extract_prices_regex(full_text)
    /\ pc' = "excel"
    /\ UNCHANGED <<pages, full_text, df, output_rows, qty, ore_code, grade_code>>

\* 2. Parse Excel: df = pd.read_excel(...)
ReadExcel(sheets) ==
    /\ pc = "excel"
    /\ df' \in sheets
    /\ pc' = "rows"
    /\ UNCHANGED <<pages, full_text, prices, output_rows, qty, ore_code, grade_code>>

\* 3. Process Math: one iteration of the loop over df.iterrows()
ProcessRow ==
    /\ pc = "rows"
    /\ Len(output_rows) < Len(df.rows)
    /\ LET rowd == RowDict(df.columns, df.rows[Len(output_rows) + 1])
       IN  /\ qty' = RowQty(df.columns, rowd)
           /\ ore_code' = RowOreCode(rowd)
           /\ grade_code' = RowGradeCode(rowd)
           /\ output_rows' = AppendRow(output_rows,
                                 RowData(rowd, qty', ore_code', grade_code', prices))
    /\ UNCHANGED <<pc, pages, full_text, prices, df>>

\* the loop ends: result_df = pd.DataFrame(output_rows)
Finish ==
    /\ pc = "rows"
    /\ Len(output_rows) = Len(df.rows)
    /\ pc' = "done"
    /\ UNCHANGED <<pages, full_text, prices, df, output_rows, qty, ore_code, grade_code>>

NextWith(sheets) ==
    \/ ReadPDF
    \/ ExtractPrices
    \/ ReadExcel(sheets)
    \/ ProcessRow
    \/ Finish

Init == InitWith(Gazettes)

Next == NextWith(Sheets)

Spec == Init /\ [][Next]_vars

(***************************************************************************)
(* Specifications over other inputs, for the claims about one function     *)
(***************************************************************************)
OneHeader == <<"Type of Ore", "Grade ( Fe%)", "Quantity", "Lessee">>

OneGazette ==
    <<"Goa\nLumps 60 to below 62 500\nFines 62 to below 65 650\nGujarat Lumps 55 to 58 999">>

\* one-row spreadsheets whose grade cell is the decimal text of an integer,
\* or one of the program's own grade labels
GradeTexts ==
    {IntText(n) : n \in (-GradeRange)..GradeRange}
        \union {GRADE_FULL_FORMS[g] : g \in DOMAIN GRADE_FULL_FORMS}

GradeSheets ==
    {[columns |-> OneHeader,
      rows    |-> << <<StrVal("Lumps"), StrVal(t), StrVal("10"), StrVal("Lessee A")>> >>] :
        t \in GradeTexts}

SpecGrade == InitWith({OneGazette}) /\ [][NextWith(GradeSheets)]_vars

\* one-row spreadsheets over commodity descriptions
OreWords ==
    {"Bauxite", "MANGANESE", "l", "F", "c", "L", "M", "B", "Lump", "Fine",
     "Concentrate", "xyz", "granite", "Bauxite Fine", "manganese lump",
     "fine conc"}

OreTexts ==
    {pre \o w \o post : pre \in {"", " ", "Iron "}, w \in OreWords,
                        post \in {"", " Ore", "s"}}

OreSheets ==
    {[columns |-> OneHeader,
      rows    |-> << <<StrVal(t), StrVal("60"), StrVal("10"), StrVal("Lessee A")>> >>] :
        t \in OreTexts}

SpecOre == InitWith({OneGazette}) /\ [][NextWith(OreSheets)]_vars

\* one-page gazettes: a Lumps block with a grade line, then another keyword
\* and a second grade line
ParseGazettes ==
    {<<pre \o "Lumps " \o g1 \o " " \o v1 \o " " \o kw \o " " \o g2 \o " " \o v2
           \o " Gujarat Lumps 65 and above 9999">> :
        pre \in {"Goa ", "goa: ", "Odisha "},
        g1  \in {"60 to below 62", "58-60"},
        v1  \in {"NA", "500", "7 na 450"},
        kw  \in {"Bauxite", "Manganese", "Fines", "and"},
        g2  \in {"55 to below 58", "Below  55"},
        v2  \in {"900", "NA 1,200"}}

ParseSheets == {[columns |-> OneHeader, rows |-> <<r>>] : r \in RowPool}

SpecParse == InitWith(ParseGazettes) /\ [][NextWith(ParseSheets)]_vars

(***************************************************************************)
(* Claims                                                                  *)
(***************************************************************************)
\* the locals hold the values of the row processed last
LastOut == output_rows[Len(output_rows)]

LastRow == df.rows[Len(output_rows)]

OutStatus(out) == out["Calculation Status"].text

OutRate(out) == out["IBM Rate (₹)"].num

OutBase(out) == out["Base Value (₹)"].num

OutRoyalty(out) == out["Royalty Payable (15%)"].num

OutDmf(out) == out["DMF Payable (30%)"].num

HasPrice(o, g) == o \in DOMAIN prices /\ g \in DOMAIN prices[o]

\* C1: every processed record follows the resolution order: unresolved ore
\* code -> invalid-commodity status, price 0; else unresolved grade code ->
\* invalid-grade status, price 0; else no table entry -> rate-unavailable,
\* price 0; else Success with the table entry as price.  A record whose
\* price is absent from the table never ends with status Success.
C1_ResolutionOrder ==
    \A i \in 1..Len(output_rows) :
        LET rowd == RowDict(df.columns, df.rows[i])
            o    == RowOreCode(rowd)
            g    == RowGradeCode(rowd)
            st   == OutStatus(output_rows[i])
            rate == OutRate(output_rows[i])
        IN  /\ IF o = None
               THEN st = "Error: Invalid Ore Type" /\ rate = <<0, 1>>
               ELSE IF g = "Unknown"
               THEN st = "Error: Invalid Grade" /\ rate = <<0, 1>>
               ELSE IF ~HasPrice(o, g)
               THEN st = "Rate Not Found (NA in Gazette)" /\ rate = <<0, 1>>
               ELSE st = "Success" /\ rate = prices[o][g]
            /\ ~HasPrice(o, g) => st # "Success"

\* C1 witness: a run that ended with a priced record and an unpriced one
C1_Witness ==
    /\ pc = "done"
    /\ Len(output_rows) = 2
    /\ OutStatus(output_rows[1]) = "Success"
    /\ OutStatus(output_rows[2]) = "Rate Not Found (NA in Gazette)"

\* C2: for every record, whatever its status, base value = quantity x price,
\* royalty = 15% of base value and development fee = 30% of royalty; Lumps,
\* grade D, quantity 1000 with table {L: {D: 500}} gives price 500, base
\* 500000, royalty 75000, fee 22500, status Success.
C2_LevyArithmetic ==
    Len(output_rows) >= 1 =>
        LET base == OutBase(LastOut)
            roy  == OutRoyalty(LastOut)
            dmf  == OutDmf(LastOut)
            rate == OutRate(LastOut)
        IN  /\ base[1] * qty[2] * rate[2] = qty[1] * rate[1] * base[2]
            /\ roy[1] * 100 * base[2] = base[1] * 15 * roy[2]
            /\ dmf[1] * 100 * roy[2] = roy[1] * 30 * dmf[2]
            /\ base[2] > 0 /\ roy[2] > 0 /\ dmf[2] > 0
            /\ ( /\ LastRow[1] = StrVal("Lumps")
                 /\ LastRow[2] = StrVal("D")
                 /\ LastRow[3] = StrVal("1000")
                 /\ DictGet(df.columns, 1, "") = "Type of Ore"
                 /\ QtyCol(df.columns) = DictGet(df.columns, 3, "")
                 /\ prices = [EmptyPrices EXCEPT !["L"] = [c \in {"D"} |-> <<500, 1>>]] )
               => /\ rate = <<500, 1>>
                  /\ base = <<500000, 1>>
                  /\ roy = <<75000, 1>>
                  /\ dmf = <<22500, 1>>
                  /\ OutStatus(LastOut) = "Success"

\* C2 witness: the worked example has been processed
C2_Witness ==
    /\ Len(output_rows) >= 1
    /\ LastRow[1] = StrVal("Lumps") /\ LastRow[2] = StrVal("D")
    /\ LastRow[3] = StrVal("1000")
    /\ prices = [EmptyPrices EXCEPT !["L"] = [c \in {"D"} |-> <<500, 1>>]]
    /\ OutBase(LastOut) = <<500000, 1>>

\* C3: for every record and every raw quantity (unparseable text, NA / nil /
\* empty markers and negative numbers included) the quantity used is >= 0,
\* and base value, royalty and development fee are all non-negative.
C3_NonNegative ==
    Len(output_rows) >= 1 =>
        /\ qty[1] >= 0
        /\ OutBase(LastOut)[1] >= 0
        /\ OutRoyalty(LastOut)[1] >= 0
        /\ OutDmf(LastOut)[1] >= 0

\* the bucket the specification documents for an iron content of n percent
GradeBucket(n) ==
    IF n < 55 THEN "A"
    ELSE IF n < 58 THEN "B"
    ELSE IF n < 60 THEN "C"
    ELSE IF n < 62 THEN "D"
    ELSE IF n < 65 THEN "E"
    ELSE "F"

GradeCellIs(t) == Len(output_rows) = 1 /\ df.rows[1][2] = StrVal(t)

\* C4 (as amended): for every integer n >= 0 given as its decimal text,
\* get_grade_code returns the documented bucket: n<55 A, 55<=n<58 B,
\* 58<=n<60 C, 60<=n<62 D, 62<=n<65 E, n>=65 F.
C4_BucketsNonNegative ==
    \A n \in 0..GradeRange : GradeCellIs(IntText(n)) => grade_code = GradeBucket(n)

\* C4 as stated: the same for every integer n, the negative ones included
C4_BucketsAllIntegers ==
    \A n \in (-GradeRange)..GradeRange :
        GradeCellIs(IntText(n)) => grade_code = GradeBucket(n)

\* C4 witness: the boundary value 65 has been bucketed
C4_Witness == GradeCellIs("65") /\ grade_code = "F" /\ pc = "done"

\* the commodity rules of the specification, in priority order, with the
\* canonical single-letter codes being the keys of ORE_FULL_FORMS
OreRule(t) ==
    LET s == Lower(Strip(t))
    IN  IF Contains(s, "bauxite") THEN "B"
        ELSE IF Contains(s, "manganese") THEN "M"
        ELSE IF Upper(s) \in DOMAIN ORE_FULL_FORMS THEN Upper(s)
        ELSE IF Contains(s, "lump") THEN "L"
        ELSE IF Contains(s, "fine") THEN "F"
        ELSE IF Contains(s, "conc") THEN "C"
        ELSE None

\* C5: get_ore_type applies the commodity rules in priority order, first
\* match wins, case-insensitively: bauxite, manganese, an exact canonical
\* single-letter code, lump / fine / conc, otherwise unresolved.
C5_OreRules ==
    Len(output_rows) = 1 => ore_code = OreRule(df.rows[1][1].text)

\* the grade phrase of the k-th pattern is matched in the block of ore, and
\* what follows it (SnippetLen characters) satisfies after
GradeMatchFollowedBy(text, ore, k, after(_)) ==
    /\ SearchWord(text, "goa") # -1
    /\ LET flat_text == FlatText(GoaText(text))
           indices   == OreIndices(flat_text)
       IN  \E i \in 1..Len(indices) :
              /\ indices[i][1] = ore
              /\ LET block == Block(flat_text, indices, i)
                     m_end == PatternEnd(grade_patterns[k], block)
                 IN  /\ m_end # -1
                     /\ after(Slice(block, m_end, m_end + SnippetLen))

\* "NA" occurs in the snippet with no digit before it
NABeforeAnyDigit(snippet) ==
    \E p \in 0..(Len(snippet) - 2) :
        /\ Slice(Lower(snippet), p, p + 2) = "na"
        /\ \A q \in 0..(p - 1) : ~IsDigit(CharAt(snippet, q))

\* "NA" occurs in the snippet with no run of two or more digits before it
NABeforeAnyPrice(snippet) ==
    \E p \in 0..(Len(snippet) - 2) :
        /\ Slice(Lower(snippet), p, p + 2) = "na"
        /\ \A q \in 0..(p - 1) :
              ~(IsDigit(CharAt(snippet, q)) /\ IsDigit(CharAt(snippet, q + 1)))

UnrelatedAt(block) ==
    LET b == Find(Lower(block), "bauxite")
        m == Find(Lower(block), "manganese")
    IN  IF b = -1 THEN m ELSE IF m = -1 THEN b ELSE IF b < m THEN b ELSE m

\* a grade phrase with a price after it
PriceFollows(snippet) == ValMatch(snippet).group1 # ""

\* C7: a bauxite or manganese keyword ends the current Lumps / Fines /
\* Concentrates context: a grade phrase and price that appear after it (and
\* before the next lumps / fines / conc keyword), the grade having no match
\* before it, are never recorded in a cell of the price table.
C7_UnrelatedKeywordEndsContext ==
    (pc = "excel" /\ SearchWord(full_text, "goa") # -1) =>
        LET flat_text == FlatText(GoaText(full_text))
            indices   == OreIndices(flat_text)
        IN  \A i \in 1..Len(indices), k \in 1..Len(grade_patterns) :
                LET block == Block(flat_text, indices, i)
                    at    == UnrelatedAt(block)
                    tail  == Slice(block, at, Len(block))
                    t_end == PatternEnd(grade_patterns[k], tail)
                IN  ( /\ at # -1
                      /\ PatternEnd(grade_patterns[k], Slice(block, 0, at)) = -1
                      /\ t_end # -1
                      /\ PriceFollows(Slice(tail, t_end, t_end + SnippetLen)) )
                    => ~HasPrice(indices[i][1], grade_patterns[k].code)

NoJurisdiction == ~Contains(Lower(full_text), "goa")

\* C8: when the gazette text contains no occurrence of the jurisdiction name
\* the parser returns a price table with no entries, and every record whose
\* commodity and grade both resolve gets the rate-unavailable status, price 0.
C8_MissingJurisdiction ==
    (pc \in {"excel", "rows", "done"} /\ NoJurisdiction) =>
        /\ \A o \in DOMAIN prices : DOMAIN prices[o] = {}
        /\ DOMAIN prices = {"L", "F", "C"}
        /\ (Len(output_rows) >= 1 /\ ore_code # None /\ grade_code # "Unknown")
              => /\ OutStatus(LastOut) = "Rate Not Found (NA in Gazette)"
                 /\ OutRate(LastOut) = <<0, 1>>

\* C8 witness: a gazette without the jurisdiction name but with a Lumps
\* price line, and a record that resolves to Lumps, grade D
C8_Witness ==
    /\ pc = "done"
    /\ NoJurisdiction
    /\ Contains(full_text, "Lumps 60 to below 62 500")
    /\ Len(output_rows) = 1
    /\ ore_code = "L" /\ grade_code = "D"
    /\ OutStatus(LastOut) = "Rate Not Found (NA in Gazette)"

\* one output record per processed input record, in input order
OneOutputPerRow ==
    /\ pc \in {"open", "prices", "excel"} => output_rows = <<>>
    /\ pc \in {"rows", "done"} => Len(output_rows) <= Len(df.rows)
    /\ pc = "done" => Len(output_rows) = Len(df.rows)

C10_LabelRoundTrip ==
    \A g \in DOMAIN GRADE_FULL_FORMS :
        GradeCellIs(GRADE_FULL_FORMS[g]) => grade_code = g

=============================================================================
